---- MODULE Spec2Model ----
(***************************************************************************)
(* The in-memory catalog store of the movie catalog application            *)
(* (src/app/lib/data.ts): the module-level arrays `movies` and `users`     *)
(* and the synchronous operations over them.                               *)
(*                                                                         *)
(* Representation notes                                                    *)
(*  - arrays are sequences; JavaScript index i is TLA+ index i + 1, and    *)
(*    findIndex's -1 is 0 here;                                            *)
(*  - `undefined` / `null` results are the empty sequence, a returned      *)
(*    object is a one-element sequence;                                    *)
(*  - ids are the decimal strings the code builds with toString();         *)
(*  - a JavaScript number (a rating, averageRating) is kept as the         *)
(*    fraction in lowest terms [num, den] (n is n/1, NaN is 0/0):          *)
(*    distinct fractions of this size are distinct doubles, so equality    *)
(*    is preserved.                                                        *)
(***************************************************************************)
EXTENDS Integers, Sequences, FiniteSets, TLC

VARIABLES movies, users, op, prevMovies, prevUsers, requests, client

vars == <<movies, users, op, prevMovies, prevUsers, requests, client>>

(***************************************************************************)
(* Bounds of the exploration.                                              *)
(***************************************************************************)
MaxMovies == 7
MaxUsers == 3
MaxRequests == 3
MaxFetches == 2

(***************************************************************************)
(* Program constants.                                                      *)
(***************************************************************************)
MinRating == 1
MaxRating == 5

NoReview == "undefined"

(***************************************************************************)
(* Inputs offered to the operations.                                       *)
(***************************************************************************)
\* "6" is the last initial movie, "99" is never a movie; "1" is the first
\* initial movie, removed to shorten the array in front of the others.
MovieIdInputs == {"6", "99"}
DeleteIdInputs == MovieIdInputs \cup {"1"}
\* "2" is the demo user; "3" is unknown until addUser creates it.
UserIdInputs == {"2", "3"}
OneUserId == {"2"}
OneMovieId == {"6"}
RatingInputs == {[num |-> r, den |-> 1] : r \in {q \in MinRating..MaxRating : q >= 4}}
OneRating == {r \in RatingInputs : r.num = 4}
ReviewInputs == {NoReview}
ReviewChoices == ReviewInputs \cup {"Great movie"}
RatedIdInputs == MovieIdInputs
MovieInputs ==
  { [title |-> "X", description |-> "ten+ chars",
     imageUrl |-> "https://e/i.jpg", releaseDate |-> "2020-01-01"] }
UpdateInputs ==
  { [title |-> "Fight Club (1999)", releaseDate |-> "1999-11-11"] }
\* partial updates: one field, three fields, and no field at all
UpdateChoices ==
  { [title |-> "Retitled"],
    [description |-> "A new description", imageUrl |-> "https://e/new.jpg",
     releaseDate |-> "2001-01-01"],
    [f \in {} |-> ""] }
UserInputs ==
  { [email |-> "new@example.com", name |-> "New User", password |-> "$2b$10$hash"] }
\* user data for the specification that focuses on addUser: a new address,
\* the same address under another name, and the address of the demo user
UserChoices ==
  UserInputs \cup
  { [email |-> "new@example.com", name |-> "Another User", password |-> "$2b$10$hash"],
    [email |-> "demo@example.com", name |-> "Second Demo", password |-> "$2b$10$hash"] }
Timestamps == {"2025-01-01T00:00:00.000Z"}

\* Inputs of the specification that focuses on the release years: hosts in
\* UTC and west and east of it, year arguments with null and 0; the movie
\* that is added was released on the first day of a year.
TimezoneOffsets == {0 - 5, 0, 2}
\* a year argument: NullYear for null, <<n>> for the number n
NullYear == <<>>
YearUpdateInputs == { [releaseDate |-> "2001-01-01"] }
YearInputs == { NullYear, <<0>>, <<1999>>, <<2019>>, <<2020>> }

\* Inputs of the specification that focuses on searchMovies: titles,
\* descriptions and queries as character sequences.
MaxCatalog == 2
SearchTitles == { <<"b", "a">>, <<"c", " ", "D">> }
SearchDescriptions == { <<"x", "A", "B", "y">>, <<"c", "d">> }
SearchMovieInputs ==
  { [title |-> t, description |-> d,
     imageUrl |-> "https://e/i.jpg", releaseDate |-> "2020-01-01"] :
    t \in SearchTitles, d \in SearchDescriptions }
OneSearchMovie ==
  { m \in SearchMovieInputs : m.title = <<"b", "a">> /\ m.description = <<"c", "d">> }
SearchUpdateInputs == { [title |-> <<"a", "B", "c">>] }
SearchIdInputs == {"1", "99"}
QueryInputs ==
  { <<>>, <<" ">>, <<" ", "\t", "\n">>,
    <<"a">>, <<"A", "B">>, <<" ", "a", "b", "\t">>, <<"b", " ", "a">>,
    <<"C", "D">>, <<"c", " ", "d">>, <<"\n", "Y">>, <<"z">> }

(***************************************************************************)
(* Arithmetic helpers.                                                     *)
(***************************************************************************)
RECURSIVE Gcd(_, _)
Gcd(a, b) == IF b = 0 THEN a ELSE Gcd(b, a % b)

\* JavaScript's a / b for integers a >= 0, b >= 0.  0 / 0 is NaN.
Quotient(a, b) ==
  IF b = 0 THEN [num |-> 0, den |-> 0]
  ELSE [num |-> a \div Gcd(a, b), den |-> b \div Gcd(a, b)]

Zero == [num |-> 0, den |-> 1]

\* the number n
Number(n) == [num |-> n, den |-> 1]

\* x + y for numbers x, y >= 0
Plus(x, y) == Quotient(x.num * y.den + y.num * x.den, x.den * y.den)

\* x / n for a number x >= 0 and an integer n >= 0
Over(x, n) == Quotient(x.num, x.den * n)

\* x <= y for numbers
AtMost(x, y) == x.num * y.den <= y.num * x.den

RECURSIVE SumRatings(_)
\* ratings.reduce((sum, r) => sum + r.rating, 0)
SumRatings(rs) ==
  IF rs = <<>> THEN Zero
  ELSE Plus(SumRatings(SubSeq(rs, 1, Len(rs) - 1)), rs[Len(rs)].rating)

(***************************************************************************)
(* The initial collections.                                                *)
(***************************************************************************)
InitialMovie(id, title, description, imageUrl, releaseDate) ==
  [id |-> id, title |-> title, description |-> description,
   imageUrl |-> imageUrl, releaseDate |-> releaseDate,
   ratings |-> <<>>, averageRating |-> Zero, totalRatings |-> 0]

InitialMovies ==
  << InitialMovie("1", "The Matrix",
       "A computer programmer is led to fight an underground war against powerful computers who have constructed his entire reality with a computer program.",
       "https://image.tmdb.org/t/p/w500/f89U3ADr1oiB1s9GkdPOEpXUk5H.jpg", "1999-03-31"),
     InitialMovie("2", "Inception",
       "A thief who steals corporate secrets through the use of dream-sharing technology is given the inverse task of planting an idea into the mind of a C.E.O.",
       "https://image.tmdb.org/t/p/w500/9gk7adHYeDvHkCSEqAvQNLV5Uge.jpg", "2010-07-16"),
     InitialMovie("3", "Interstellar",
       "A team of explorers travel through a wormhole in space in an attempt to ensure humanity's survival.",
       "https://image.tmdb.org/t/p/w500/gEU2QniE6E77NI6lCU6MxlNBvIx.jpg", "2014-11-07"),
     InitialMovie("4", "The Dark Knight",
       "When the menace known as the Joker wreaks havoc and chaos on the people of Gotham, Batman must accept one of the greatest psychological and physical tests.",
       "https://image.tmdb.org/t/p/w500/qJ2tW6WMUDux911r6m7haRef0WH.jpg", "2008-07-18"),
     InitialMovie("5", "Pulp Fiction",
       "The lives of two mob hitmen, a boxer, a gangster and his wife, and a pair of diner bandits intertwine in four tales of violence and redemption.",
       "https://image.tmdb.org/t/p/w500/d5iIlFn5s0ImszYzBPb8JPIfbXD.jpg", "1994-10-14"),
     InitialMovie("6", "Fight Club",
       "An insomniac office worker and a devil-may-care soap maker form an underground fight club that evolves into an anarchist organization.",
       "https://image.tmdb.org/t/p/w500/pB8BM7pdSp6B6Ih7QZ4DrQ3PmJK.jpg", "1999-10-15") >>

InitialUsers ==
  << [id |-> "1", email |-> "admin@movieapp.com", name |-> "Movie Admin",
      password |-> "$2b$10$Vp41WiGzXbNY2cAl7rqC/u46K126o1uOhEfUjWR83.uzlL8ExBvIq",
      role |-> "admin", favorites |-> <<>>, createdAt |-> "2024-01-01T00:00:00.000Z"],
     [id |-> "2", email |-> "demo@example.com", name |-> "Demo User",
      password |-> "$2b$10$Vp41WiGzXbNY2cAl7rqC/u46K126o1uOhEfUjWR83.uzlL8ExBvIq",
      role |-> "user", favorites |-> <<>>, createdAt |-> "2024-01-01T00:00:00.000Z"] >>

(***************************************************************************)
(* Array helpers.                                                          *)
(***************************************************************************)
\* Array.prototype.includes on an array of strings
Includes(seq, x) == \E i \in 1..Len(seq) : seq[i] = x

\* favorites.filter(fav => fav !== id)
Without(seq, x) == SelectSeq(seq, LAMBDA e : e # x)

\* movies.findIndex(m => m.id === id); 0 when there is none
MovieIndex(ms, id) ==
  IF \E i \in 1..Len(ms) : ms[i].id = id
  THEN CHOOSE i \in 1..Len(ms) : ms[i].id = id /\ \A j \in 1..(i - 1) : ms[j].id # id
  ELSE 0

\* users.findIndex(u => u.id === userId); 0 when there is none
UserIndex(us, userId) ==
  IF \E i \in 1..Len(us) : us[i].id = userId
  THEN CHOOSE i \in 1..Len(us) : us[i].id = userId /\ \A j \in 1..(i - 1) : us[j].id # userId
  ELSE 0

\* splice(index, 1)
RemoveAt(seq, i) == SubSeq(seq, 1, i - 1) \o SubSeq(seq, i + 1, Len(seq))

\* The result of a store call: the collections afterwards, a boolean
\* result (true for a non-null object) and the returned object, if any.
Result(ms, us, ok, out) == [movies |-> ms, users |-> us, ok |-> ok, out |-> out]

(***************************************************************************)
(* Queries.                                                                *)
(***************************************************************************)
getMovies(ms) == ms

getMovieById(ms, id) ==
  IF MovieIndex(ms, id) = 0 THEN <<>> ELSE <<ms[MovieIndex(ms, id)]>>

isMovieFavorited(us, userId, movieId) ==
  IF UserIndex(us, userId) = 0 THEN FALSE
  ELSE Includes(us[UserIndex(us, userId)].favorites, movieId)

getFavoriteMovies(ms, us, userId) ==
  IF UserIndex(us, userId) = 0 THEN <<>>
  ELSE SelectSeq(ms, LAMBDA m : Includes(us[UserIndex(us, userId)].favorites, m.id))

(***************************************************************************)
(* Release years.  new Date(releaseDate) reads a date-only ISO string as   *)
(* midnight UTC, and getFullYear answers in the local time of the host,    *)
(* whose offset from UTC in hours is the argument offset.                  *)
(***************************************************************************)
\* the year, month and day written in the release dates that are offered
DateParse(str) ==
  CASE str = "1999-03-31" -> [year |-> 1999, month |-> 3, day |-> 31]
    [] str = "2010-07-16" -> [year |-> 2010, month |-> 7, day |-> 16]
    [] str = "2014-11-07" -> [year |-> 2014, month |-> 11, day |-> 7]
    [] str = "2008-07-18" -> [year |-> 2008, month |-> 7, day |-> 18]
    [] str = "1994-10-14" -> [year |-> 1994, month |-> 10, day |-> 14]
    [] str = "1999-10-15" -> [year |-> 1999, month |-> 10, day |-> 15]
    [] str = "1999-11-11" -> [year |-> 1999, month |-> 11, day |-> 11]
    [] str = "2020-01-01" -> [year |-> 2020, month |-> 1, day |-> 1]
    [] str = "2001-01-01" -> [year |-> 2001, month |-> 1, day |-> 1]

\* new Date(releaseDate).getFullYear(): midnight UTC lies in the previous
\* local day when the host is west of UTC, in the same day otherwise
getFullYear(releaseDate, offset) ==
  LET date == DateParse(releaseDate)
  IN IF offset < 0 /\ date.month = 1 /\ date.day = 1 THEN date.year - 1
     ELSE date.year

\* Array.from(new Set(array)): the first occurrences, in order
Unique(seq) ==
  LET keep == {i \in 1..Len(seq) : \A j \in 1..(i - 1) : seq[j] # seq[i]}
      F[i \in 0..Len(seq)] ==
        IF i = 0 THEN <<>>
        ELSE IF i \in keep THEN Append(F[i - 1], seq[i]) ELSE F[i - 1]
  IN F[Len(seq)]

\* Array.prototype.sort((a, b) => b - a)
RECURSIVE SortDescending(_)
SortDescending(seq) ==
  IF seq = <<>> THEN <<>>
  ELSE LET i == CHOOSE k \in 1..Len(seq) :
                  /\ \A j \in 1..Len(seq) : seq[j] <= seq[k]
                  /\ \A j \in 1..(k - 1) : seq[j] < seq[k]
       IN <<seq[i]>> \o SortDescending(RemoveAt(seq, i))

filterMoviesByYear(ms, year, offset) ==
  IF year = NullYear \/ year[1] = 0 THEN ms
  ELSE SelectSeq(ms, LAMBDA movie : getFullYear(movie.releaseDate, offset) = year[1])

getMovieYears(ms, offset) ==
  LET years == [i \in 1..Len(ms) |-> getFullYear(ms[i].releaseDate, offset)]
  IN SortDescending(Unique(years))

(***************************************************************************)
(* Search.  A string that is searched is the sequence of its characters,   *)
(* each a one-character string.                                            *)
(***************************************************************************)
UpperCase ==
  <<"A", "B", "C", "D", "E", "F", "G", "H", "I", "J", "K", "L", "M", "N",
     "O", "P", "Q", "R", "S", "T", "U", "V", "W", "X", "Y", "Z">>
LowerCase ==
  <<"a", "b", "c", "d", "e", "f", "g", "h", "i", "j", "k", "l", "m", "n",
     "o", "p", "q", "r", "s", "t", "u", "v", "w", "x", "y", "z">>
\* characters String.prototype.trim removes (those the inputs use)
WhiteSpace == {" ", "\t", "\n"}

\* String.prototype.toLowerCase
toLowerCase(str) ==
  [i \in 1..Len(str) |->
     IF \E k \in 1..Len(UpperCase) : UpperCase[k] = str[i]
     THEN LowerCase[CHOOSE k \in 1..Len(UpperCase) : UpperCase[k] = str[i]]
     ELSE str[i]]

\* String.prototype.trim
trim(str) ==
  LET kept == {i \in 1..Len(str) : str[i] \notin WhiteSpace}
  IN IF kept = {} THEN <<>>
     ELSE SubSeq(str, CHOOSE i \in kept : \A j \in kept : i <= j,
                      CHOOSE i \in kept : \A j \in kept : j <= i)

\* String.prototype.includes
StringIncludes(str, searchString) ==
  \E i \in 0..(Len(str) - Len(searchString)) :
    SubSeq(str, i + 1, i + Len(searchString)) = searchString

\* searchMovies that tests and uses the query untrimmed
searchMovies_noTrim(ms, query) ==
  IF query = <<>> THEN ms
  ELSE LET searchTerm == toLowerCase(query)
       IN SelectSeq(ms, LAMBDA movie :
            \/ StringIncludes(toLowerCase(movie.title), searchTerm)
            \/ StringIncludes(toLowerCase(movie.description), searchTerm))

\* searchMovies that looks at titles only
searchMovies_titleOnly(ms, query) ==
  IF trim(query) = <<>> THEN ms
  ELSE LET searchTerm == trim(toLowerCase(query))
       IN SelectSeq(ms, LAMBDA movie :
            StringIncludes(toLowerCase(movie.title), searchTerm))

searchMovies(ms, query) ==
  IF trim(query) = <<>> THEN ms
  ELSE LET searchTerm == trim(toLowerCase(query))
       IN SelectSeq(ms, LAMBDA movie :
            \/ StringIncludes(toLowerCase(movie.title), searchTerm)
            \/ StringIncludes(toLowerCase(movie.description), searchTerm))

(***************************************************************************)
(* Mutations.                                                              *)
(***************************************************************************)
addMovie(ms, us, movie) ==
  LET newMovie == [id |-> ToString(Len(ms) + 1),
                   title |-> movie.title, description |-> movie.description,
                   imageUrl |-> movie.imageUrl, releaseDate |-> movie.releaseDate,
                   ratings |-> <<>>, averageRating |-> Zero, totalRatings |-> 0]
  IN Result(Append(ms, newMovie), us, TRUE, <<newMovie>>)

\* users.find(user => user.email === email): the first match, or nothing
getUserByEmail(us, email) ==
  LET found == SelectSeq(us, LAMBDA u : u.email = email)
  IN IF found = <<>> THEN <<>> ELSE <<found[1]>>

\* addUser that numbers the new user users.length instead of users.length + 1
addUser_idFromLength(ms, us, userData, now) ==
  LET newUser == [id |-> ToString(Len(us)),
                  email |-> userData.email, name |-> userData.name,
                  password |-> userData.password,
                  role |-> "user", favorites |-> <<>>, createdAt |-> now]
  IN Result(ms, Append(us, newUser), TRUE, <<newUser>>)

addUser(ms, us, userData, now) ==
  LET newUser == [id |-> ToString(Len(us) + 1),
                  email |-> userData.email, name |-> userData.name,
                  password |-> userData.password,
                  role |-> "user", favorites |-> <<>>, createdAt |-> now]
  IN Result(ms, Append(us, newUser), TRUE, <<newUser>>)

addToFavorites_noDuplicateCheck(ms, us, userId, movieId) ==
  LET i == UserIndex(us, userId)
  IN IF i = 0 THEN Result(ms, us, FALSE, <<>>)
     ELSE Result(ms, [us EXCEPT ![i].favorites = Append(@, movieId)], TRUE, <<>>)

addToFavorites_requiresMovie(ms, us, userId, movieId) ==
  LET i == UserIndex(us, userId)
  IN IF i = 0 \/ Includes(us[i].favorites, movieId) \/ MovieIndex(ms, movieId) = 0
     THEN Result(ms, us, FALSE, <<>>)
     ELSE Result(ms, [us EXCEPT ![i].favorites = Append(@, movieId)], TRUE, <<>>)

addToFavorites(ms, us, userId, movieId) ==
  LET i == UserIndex(us, userId)
  IN IF i = 0 \/ Includes(us[i].favorites, movieId)
     THEN Result(ms, us, FALSE, <<>>)
     ELSE Result(ms, [us EXCEPT ![i].favorites = Append(@, movieId)], TRUE, <<>>)

\* indexOf / splice instead of filter: an id that is not there (index -1)
\* takes the last entry away
removeFromFavorites_splice(ms, us, userId, movieId) ==
  LET i == UserIndex(us, userId)
  IN IF i = 0 THEN Result(ms, us, FALSE, <<>>)
     ELSE LET favs == us[i].favorites
              at == IF Includes(favs, movieId)
                    THEN CHOOSE a \in 1..Len(favs) : favs[a] = movieId
                    ELSE Len(favs)
          IN Result(ms, [us EXCEPT ![i].favorites =
                           IF favs = <<>> THEN favs ELSE RemoveAt(favs, at)], TRUE, <<>>)

removeFromFavorites(ms, us, userId, movieId) ==
  LET i == UserIndex(us, userId)
  IN IF i = 0 THEN Result(ms, us, FALSE, <<>>)
     ELSE Result(ms, [us EXCEPT ![i].favorites = Without(@, movieId)], TRUE, <<>>)

addRating_staleAggregates(ms, us, movieId, userId, rating, review) ==
  LET i == MovieIndex(ms, movieId)
  IN IF i = 0 THEN Result(ms, us, FALSE, <<>>)
     ELSE LET kept == SelectSeq(ms[i].ratings, LAMBDA r : r.userId # userId)
              ratings == Append(kept, [userId |-> userId, rating |-> rating, review |-> review])
              movie == [ms[i] EXCEPT !.ratings = ratings]
          IN Result([ms EXCEPT ![i] = movie], us, TRUE, <<movie>>)

addRating_noReplace(ms, us, movieId, userId, rating, review) ==
  LET i == MovieIndex(ms, movieId)
  IN IF i = 0 THEN Result(ms, us, FALSE, <<>>)
     ELSE LET ratings == Append(ms[i].ratings,
                                [userId |-> userId, rating |-> rating, review |-> review])
              movie == [ms[i] EXCEPT !.ratings = ratings,
                                     !.totalRatings = Len(ratings),
                                     !.averageRating = Over(SumRatings(ratings), Len(ratings))]
          IN Result([ms EXCEPT ![i] = movie], us, TRUE, <<movie>>)

\* push({ userId, rating }) without the review
addRating_dropsReview(ms, us, movieId, userId, rating, review) ==
  LET i == MovieIndex(ms, movieId)
  IN IF i = 0 THEN Result(ms, us, FALSE, <<>>)
     ELSE LET kept == SelectSeq(ms[i].ratings, LAMBDA r : r.userId # userId)
              ratings == Append(kept, [userId |-> userId, rating |-> rating, review |-> NoReview])
              movie == [ms[i] EXCEPT !.ratings = ratings,
                                     !.totalRatings = Len(ratings),
                                     !.averageRating = Over(SumRatings(ratings), Len(ratings))]
          IN Result([ms EXCEPT ![i] = movie], us, TRUE, <<movie>>)

\* addRating that stores the mean of the user's earlier rating and the new
\* one
addRating_blendsRatings(ms, us, movieId, userId, rating, review) ==
  LET i == MovieIndex(ms, movieId)
  IN IF i = 0 THEN Result(ms, us, FALSE, <<>>)
     ELSE LET earlier == SelectSeq(ms[i].ratings, LAMBDA r : r.userId = userId)
              others == SelectSeq(ms[i].ratings, LAMBDA r : r.userId # userId)
              value == IF earlier = <<>> THEN rating
                       ELSE Over(Plus(earlier[1].rating, rating), 2)
              ratings == Append(others, [userId |-> userId, rating |-> value,
                                         review |-> review])
              movie == [ms[i] EXCEPT !.ratings = ratings,
                                     !.totalRatings = Len(ratings),
                                     !.averageRating = Over(SumRatings(ratings), Len(ratings))]
          IN Result([ms EXCEPT ![i] = movie], us, TRUE, <<movie>>)

addRating(ms, us, movieId, userId, rating, review) ==
  LET i == MovieIndex(ms, movieId)
  IN IF i = 0 THEN Result(ms, us, FALSE, <<>>)
     ELSE LET kept == SelectSeq(ms[i].ratings, LAMBDA r : r.userId # userId)
              ratings == Append(kept, [userId |-> userId, rating |-> rating, review |-> review])
              movie == [ms[i] EXCEPT !.ratings = ratings,
                                     !.totalRatings = Len(ratings),
                                     !.averageRating = Over(SumRatings(ratings), Len(ratings))]
          IN Result([ms EXCEPT ![i] = movie], us, TRUE, <<movie>>)

getUserRating(ms, movieId, userId) ==
  LET i == MovieIndex(ms, movieId)
  IN IF i = 0 THEN <<>>
     ELSE LET found == SelectSeq(ms[i].ratings, LAMBDA r : r.userId = userId)
          IN IF found = <<>> THEN <<>>
             ELSE <<[rating |-> found[1].rating, review |-> found[1].review]>>

\* { ...movies[movieIndex], ...updates }
Merge(movie, updates) ==
  [f \in DOMAIN movie |-> IF f \in DOMAIN updates THEN updates[f] ELSE movie[f]]

\* movies[movieIndex] = { id, ratings, averageRating, totalRatings, ...updates }:
\* the descriptive fields that are not provided are lost
updateMovie_replacesMovie(ms, us, id, updates) ==
  LET i == MovieIndex(ms, id)
      replaced == [f \in DOMAIN ms[i] |->
                     IF f \in DOMAIN updates THEN updates[f]
                     ELSE IF f \in {"id", "ratings", "averageRating", "totalRatings"}
                          THEN ms[i][f] ELSE "undefined"]
  IN IF i = 0 THEN Result(ms, us, FALSE, <<>>)
     ELSE Result([ms EXCEPT ![i] = replaced], us, TRUE, <<replaced>>)

updateMovie(ms, us, id, updates) ==
  LET i == MovieIndex(ms, id)
  IN IF i = 0 THEN Result(ms, us, FALSE, <<>>)
     ELSE Result([ms EXCEPT ![i] = Merge(ms[i], updates)], us, TRUE,
                 <<Merge(ms[i], updates)>>)

\* users.forEach(user => { user.favorites = user.favorites.filter(fav => fav !== id) })
Cascade(us, id) == [k \in 1..Len(us) |-> [us[k] EXCEPT !.favorites = Without(@, id)]]

deleteMovie_noCascade(ms, us, id) ==
  LET i == MovieIndex(ms, id)
  IN IF i = 0 THEN Result(ms, us, FALSE, <<>>)
     ELSE Result(RemoveAt(ms, i), us, TRUE, <<>>)

deleteMovie_cascadeFirst(ms, us, id) ==
  LET i == MovieIndex(ms, id)
  IN IF i = 0 THEN Result(ms, Cascade(us, id), FALSE, <<>>)
     ELSE Result(RemoveAt(ms, i), Cascade(us, id), TRUE, <<>>)

deleteMovie(ms, us, id) ==
  LET i == MovieIndex(ms, id)
  IN IF i = 0 THEN Result(ms, us, FALSE, <<>>)
     ELSE Result(RemoveAt(ms, i), Cascade(us, id), TRUE, <<>>)

(***************************************************************************)
(* The state machine: one action per store operation.  op records the      *)
(* last call (its name, its id arguments, its other arguments in order)    *)
(* and its result, prevMovies / prevUsers the collections the call         *)
(* started from.                                                           *)
(***************************************************************************)
\* requests holds the API requests that are suspended at an await, client
\* the state of the home page in a browser; both are empty in the
\* specifications that take every call and every request as one step
NoRequests == <<>>
NoClient == <<>>

Call(name, movieId, userId, args, res) ==
  /\ movies' = res.movies
  /\ users' = res.users
  /\ prevMovies' = movies
  /\ prevUsers' = users
  /\ op' = [name |-> name, movieId |-> movieId, userId |-> userId, args |-> args,
            ok |-> res.ok, out |-> res.out]
  /\ UNCHANGED <<requests, client>>

Init ==
  /\ movies = InitialMovies
  /\ users = InitialUsers
  /\ prevMovies = InitialMovies
  /\ prevUsers = InitialUsers
  /\ op = [name |-> "init", movieId |-> "", userId |-> "", args |-> <<>>,
           ok |-> TRUE, out |-> <<>>]
  /\ requests = NoRequests
  /\ client = NoClient

AddMovie(movieInputs) ==
  /\ Len(movies) < MaxMovies
  /\ \E movie \in movieInputs :
       Call("addMovie", "", "", <<movie>>, addMovie(movies, users, movie))

AddUser(userInputs) ==
  /\ Len(users) < MaxUsers
  /\ \E userData \in userInputs, now \in Timestamps :
       Call("addUser", "", "", <<userData, now>>, addUser(movies, users, userData, now))

AddToFavorites(userIds, movieIds) ==
  \E userId \in userIds, movieId \in movieIds :
    Call("addToFavorites", movieId, userId, <<>>,
         addToFavorites(movies, users, userId, movieId))

RemoveFromFavorites(userIds, movieIds) ==
  \E userId \in userIds, movieId \in movieIds :
    Call("removeFromFavorites", movieId, userId, <<>>,
         removeFromFavorites(movies, users, userId, movieId))

AddRating(movieIds, userIds, ratings, reviews) ==
  \E movieId \in movieIds, userId \in userIds, rating \in ratings, review \in reviews :
    Call("addRating", movieId, userId, <<rating, review>>,
         addRating(movies, users, movieId, userId, rating, review))

GetFavoriteMovies(userIds) ==
  \E userId \in userIds :
    Call("getFavoriteMovies", "", userId, <<>>,
         Result(movies, users, TRUE, getFavoriteMovies(movies, users, userId)))

FilterMoviesByYear(years, offsets) ==
  \E year \in years, offset \in offsets :
    Call("filterMoviesByYear", "", "", <<year, offset>>,
         Result(movies, users, TRUE, filterMoviesByYear(movies, year, offset)))

GetMovieYears(offsets) ==
  \E offset \in offsets :
    Call("getMovieYears", "", "", <<offset>>,
         Result(movies, users, TRUE, getMovieYears(movies, offset)))

SearchMovies(queries) ==
  \E query \in queries :
    Call("searchMovies", "", "", <<query>>,
         Result(movies, users, TRUE, searchMovies(movies, query)))

UpdateMovie(ids, updateInputs) ==
  \E id \in ids, updates \in updateInputs :
    Call("updateMovie", id, "", <<updates>>, updateMovie(movies, users, id, updates))

DeleteMovie(ids) ==
  \E id \in ids :
    Call("deleteMovie", id, "", <<>>, deleteMovie(movies, users, id))

(***************************************************************************)
(* Spec: every store operation, with the favorites calls drawn from all    *)
(* user and movie id inputs and the rating calls from one user and one     *)
(* value.                                                                  *)
(***************************************************************************)
Next ==
  \/ AddMovie(MovieInputs)
  \/ AddUser(UserInputs)
  \/ AddToFavorites(UserIdInputs, MovieIdInputs)
  \/ RemoveFromFavorites(UserIdInputs, MovieIdInputs)
  \/ AddRating(MovieIdInputs, OneUserId, OneRating, ReviewInputs)
  \/ UpdateMovie(MovieIdInputs, UpdateInputs)
  \/ DeleteMovie(DeleteIdInputs)

Spec == Init /\ [][Next]_vars

(***************************************************************************)
(* SpecRatings: every store operation, with the rating calls drawn from    *)
(* all user, movie id and rating inputs and the favorites calls from one   *)
(* user and one movie id.                                                  *)
(***************************************************************************)
NextRatings ==
  \/ AddMovie(MovieInputs)
  \/ AddUser(UserInputs)
  \/ AddToFavorites(OneUserId, OneMovieId)
  \/ RemoveFromFavorites(OneUserId, OneMovieId)
  \/ AddRating(MovieIdInputs, UserIdInputs, RatingInputs, ReviewInputs)
  \/ UpdateMovie(MovieIdInputs, UpdateInputs)
  \/ DeleteMovie(DeleteIdInputs)

SpecRatings == Init /\ [][NextRatings]_vars

(***************************************************************************)
(* SpecReviews: every store operation, with the rating calls drawn from    *)
(* all user, rating and review inputs and two rated movies; favorites,     *)
(* updates and deletions from one id each.                                 *)
(***************************************************************************)
NextReviews ==
  \/ AddMovie(MovieInputs)
  \/ AddUser(UserInputs)
  \/ AddToFavorites(OneUserId, OneMovieId)
  \/ RemoveFromFavorites(OneUserId, OneMovieId)
  \/ AddRating(RatedIdInputs, UserIdInputs, RatingInputs, ReviewChoices)
  \/ UpdateMovie(OneMovieId, UpdateInputs)
  \/ DeleteMovie(MovieIdInputs)

SpecReviews == Init /\ [][NextReviews]_vars

(***************************************************************************)
(* SpecUpdates: every store operation, with the update calls drawn from    *)
(* several partial updates; ratings and favorites from one user.           *)
(***************************************************************************)
NextUpdates ==
  \/ AddMovie(MovieInputs)
  \/ AddUser(UserInputs)
  \/ AddToFavorites(OneUserId, OneMovieId)
  \/ RemoveFromFavorites(OneUserId, OneMovieId)
  \/ AddRating(MovieIdInputs, OneUserId, OneRating, ReviewInputs)
  \/ UpdateMovie(MovieIdInputs, UpdateChoices)
  \/ DeleteMovie(DeleteIdInputs)

SpecUpdates == Init /\ [][NextUpdates]_vars

(***************************************************************************)
(* SpecUsers: every store operation, with the addUser calls drawn from     *)
(* several user records; favorites of two users, ratings of one.           *)
(***************************************************************************)
NextUsers ==
  \/ AddMovie(MovieInputs)
  \/ AddUser(UserChoices)
  \/ AddToFavorites(UserIdInputs, OneMovieId)
  \/ RemoveFromFavorites(UserIdInputs, OneMovieId)
  \/ AddRating(OneMovieId, UserIdInputs, OneRating, ReviewInputs)
  \/ UpdateMovie(OneMovieId, UpdateInputs)
  \/ DeleteMovie(DeleteIdInputs)

SpecUsers == Init /\ [][NextUsers]_vars

(***************************************************************************)
(* SpecFavorites: every store operation and getFavoriteMovies, with the    *)
(* favorites of two users over all movie id inputs; one rating.            *)
(***************************************************************************)
NextFavorites ==
  \/ AddMovie(MovieInputs)
  \/ AddUser(UserInputs)
  \/ AddToFavorites(UserIdInputs, MovieIdInputs)
  \/ RemoveFromFavorites(OneUserId, OneMovieId)
  \/ AddRating(OneMovieId, OneUserId, OneRating, ReviewInputs)
  \/ UpdateMovie(OneMovieId, UpdateInputs)
  \/ DeleteMovie(DeleteIdInputs)
  \/ GetFavoriteMovies(UserIdInputs)

SpecFavorites == Init /\ [][NextFavorites]_vars

(***************************************************************************)
(* SpecYears: every store operation and the two year queries, drawn from   *)
(* several years and hosts; one user, one rating.                          *)
(***************************************************************************)
NextYears ==
  \/ AddMovie(MovieInputs)
  \/ AddUser(UserInputs)
  \/ AddToFavorites(OneUserId, OneMovieId)
  \/ RemoveFromFavorites(OneUserId, OneMovieId)
  \/ AddRating(OneMovieId, OneUserId, OneRating, ReviewInputs)
  \/ UpdateMovie(OneMovieId, YearUpdateInputs)
  \/ DeleteMovie(DeleteIdInputs)
  \/ FilterMoviesByYear(YearInputs, TimezoneOffsets)
  \/ GetMovieYears(TimezoneOffsets)

SpecYears == Init /\ [][NextYears]_vars

(***************************************************************************)
(* SpecSearch: searchMovies over catalogs of up to MaxCatalog movies added *)
(* to an emptied catalog, and the operations that change what a search     *)
(* reads: the list of movies, their titles and descriptions, and their     *)
(* ratings.                                                                *)
(***************************************************************************)
RECURSIVE SearchCatalogs(_)
SearchCatalogs(n) ==
  IF n = 0 THEN {<<>>}
  ELSE SearchCatalogs(n - 1) \cup
       { addMovie(ms, InitialUsers, movie).movies :
           ms \in {c \in SearchCatalogs(n - 1) : Len(c) = n - 1},
           movie \in SearchMovieInputs }

InitSearch ==
  /\ movies \in SearchCatalogs(MaxCatalog)
  /\ users = InitialUsers
  /\ prevMovies = movies
  /\ prevUsers = InitialUsers
  /\ op = [name |-> "init", movieId |-> "", userId |-> "", args |-> <<>>,
           ok |-> TRUE, out |-> <<>>]
  /\ requests = NoRequests
  /\ client = NoClient

NextSearch ==
  \/ SearchMovies(QueryInputs)
  \/ AddMovie(OneSearchMovie)
  \/ UpdateMovie(SearchIdInputs, SearchUpdateInputs)
  \/ DeleteMovie(SearchIdInputs)
  \/ AddRating(SearchIdInputs, OneUserId, OneRating, ReviewInputs)

SpecSearch == InitSearch /\ [][NextSearch]_vars

(***************************************************************************)
(* The API routes (src/app/api/movies/route.ts, [id]/route.ts, the ratings *)
(* route and the favorites route).                                         *)
(*                                                                         *)
(*  - a session is the empty sequence (getServerSession gave null) or one  *)
(*    record [id, role] of session.user; id "" is a session without a      *)
(*    user id;                                                             *)
(*  - a request body is the empty sequence (request.json() throws) or one  *)
(*    record, the parsed JSON object; a key that the JSON leaves out is    *)
(*    not in the record's DOMAIN;                                          *)
(*  - a JSON value that may be a number is [type, num, den].               *)
(***************************************************************************)
NoSession == <<>>
AdminSession == <<[id |-> "1", role |-> "admin"]>>
DemoSession == <<[id |-> "2", role |-> "user"]>>
IdlessSession == <<[id |-> "", role |-> "user"]>>
SessionInputs == {NoSession, AdminSession, DemoSession, IdlessSession}

Unparsable == <<>>

\* String.prototype.length of the strings that the bodies offer
StrLen(str) ==
  CASE str = "" -> 0
    [] str = "6" -> 1
    [] str = "99" -> 2
    [] str = "X" -> 1
    [] str = "too short" -> 9
    [] str = "ten+ chars" -> 10
    [] str = "Retitled" -> 8
    [] str = "A new description" -> 17

\* z.string().url() on the strings that the bodies offer
IsUrl(str) ==
  CASE str \in {"https://e/i.jpg", "https://e/new.jpg"} -> TRUE
    [] str \in {"", "not a url"} -> FALSE

\* !isNaN(Date.parse(date)) on the strings that the bodies offer
IsDate(str) ==
  CASE str \in {"2020-01-01", "2001-01-01"} -> TRUE
    [] str \in {"", "someday"} -> FALSE

\* the keys of a parsed object that a z.object schema knows; the others
\* are stripped
Strip(json, keys) == [k \in DOMAIN json \cap keys |-> json[k]]

MovieKeys == {"title", "description", "imageUrl", "releaseDate"}

movieSchema(json) ==
  [success |-> /\ MovieKeys \subseteq DOMAIN json
               /\ StrLen(json.title) >= 1
               /\ StrLen(json.description) >= 10
               /\ IsUrl(json.imageUrl)
               /\ IsDate(json.releaseDate),
   data |-> Strip(json, MovieKeys)]

movieUpdateSchema(json) ==
  [success |-> /\ "title" \in DOMAIN json => StrLen(json.title) >= 1
               /\ "description" \in DOMAIN json => StrLen(json.description) >= 10
               /\ "imageUrl" \in DOMAIN json => IsUrl(json.imageUrl)
               /\ "releaseDate" \in DOMAIN json => IsDate(json.releaseDate),
   data |-> Strip(json, MovieKeys)]

RatingKeys == {"movieId", "rating", "review"}

ratingSchema(json) ==
  [success |-> /\ {"movieId", "rating"} \subseteq DOMAIN json
               /\ StrLen(json.movieId) >= 1
               /\ json.rating.type = "number"
               /\ AtMost(Number(MinRating), json.rating)
               /\ AtMost(json.rating, Number(MaxRating)),
   data |-> Strip(json, RatingKeys)]

\* NextResponse.json(..., { status }) and the collections the handler leaves
Response(ms, us, status, out) ==
  [movies |-> ms, users |-> us, status |-> status, ok |-> status < 400, out |-> out]

\* POST /api/movies
PostMovie(ms, us, session, body) ==
  IF session = NoSession THEN Response(ms, us, 401, <<>>)
  ELSE IF session[1].role # "admin" THEN Response(ms, us, 403, <<>>)
  ELSE IF body = Unparsable THEN Response(ms, us, 500, <<>>)
  ELSE IF ~movieSchema(body[1]).success THEN Response(ms, us, 400, <<>>)
  ELSE LET res == addMovie(ms, us, movieSchema(body[1]).data)
       IN Response(res.movies, res.users, 201, res.out)

\* PUT /api/movies/[id] that looks the movie up before it validates the body
PutMovie_existenceFirst(ms, us, session, id, body) ==
  IF session = NoSession THEN Response(ms, us, 401, <<>>)
  ELSE IF session[1].role # "admin" THEN Response(ms, us, 403, <<>>)
  ELSE IF body = Unparsable THEN Response(ms, us, 500, <<>>)
  ELSE IF getMovieById(ms, id) = <<>> THEN Response(ms, us, 404, <<>>)
  ELSE IF ~movieUpdateSchema(body[1]).success THEN Response(ms, us, 400, <<>>)
  ELSE LET res == updateMovie(ms, us, id, movieUpdateSchema(body[1]).data)
       IN Response(res.movies, res.users, 200, res.out)

\* PUT /api/movies/[id]
PutMovie(ms, us, session, id, body) ==
  IF session = NoSession THEN Response(ms, us, 401, <<>>)
  ELSE IF session[1].role # "admin" THEN Response(ms, us, 403, <<>>)
  ELSE IF body = Unparsable THEN Response(ms, us, 500, <<>>)
  ELSE IF ~movieUpdateSchema(body[1]).success THEN Response(ms, us, 400, <<>>)
  ELSE LET res == updateMovie(ms, us, id, movieUpdateSchema(body[1]).data)
       IN IF ~res.ok THEN Response(res.movies, res.users, 404, <<>>)
          ELSE Response(res.movies, res.users, 200, res.out)

\* DELETE /api/movies/[id] that asks for a session but not for its role
DeleteMovieById_noRoleCheck(ms, us, session, id) ==
  IF session = NoSession THEN Response(ms, us, 401, <<>>)
  ELSE LET res == deleteMovie(ms, us, id)
       IN IF ~res.ok THEN Response(res.movies, res.users, 404, <<>>)
          ELSE Response(res.movies, res.users, 200, <<>>)

\* DELETE /api/movies/[id]
DeleteMovieById(ms, us, session, id) ==
  IF session = NoSession THEN Response(ms, us, 401, <<>>)
  ELSE IF session[1].role # "admin" THEN Response(ms, us, 403, <<>>)
  ELSE LET res == deleteMovie(ms, us, id)
       IN IF ~res.ok THEN Response(res.movies, res.users, 404, <<>>)
          ELSE Response(res.movies, res.users, 200, <<>>)

\* the number that the schema hands on, without the JSON type
RatingValue(json) == [num |-> json.rating.num, den |-> json.rating.den]

ReviewValue(json) == IF "review" \in DOMAIN json THEN json.review ELSE NoReview

\* POST /api/ratings that takes the userId of the body when there is one
PostRating_trustsBody(ms, us, session, body) ==
  IF session = NoSession \/ session[1].id = "" THEN Response(ms, us, 401, <<>>)
  ELSE IF body = Unparsable THEN Response(ms, us, 500, <<>>)
  ELSE IF ~ratingSchema(body[1]).success THEN Response(ms, us, 400, <<>>)
  ELSE LET data == ratingSchema(body[1]).data
           userId == IF "userId" \in DOMAIN body[1] THEN body[1].userId ELSE session[1].id
           res == addRating(ms, us, data.movieId, userId,
                            RatingValue(data), ReviewValue(data))
       IN IF ~res.ok THEN Response(res.movies, res.users, 404, <<>>)
          ELSE Response(res.movies, res.users, 200, res.out)

\* POST /api/ratings
PostRating(ms, us, session, body) ==
  IF session = NoSession \/ session[1].id = "" THEN Response(ms, us, 401, <<>>)
  ELSE IF body = Unparsable THEN Response(ms, us, 500, <<>>)
  ELSE IF ~ratingSchema(body[1]).success THEN Response(ms, us, 400, <<>>)
  ELSE LET data == ratingSchema(body[1]).data
           res == addRating(ms, us, data.movieId, session[1].id,
                            RatingValue(data), ReviewValue(data))
       IN IF ~res.ok THEN Response(res.movies, res.users, 404, <<>>)
          ELSE Response(res.movies, res.users, 200, res.out)

\* POST /api/favorites
PostFavorite(ms, us, session, body) ==
  IF session = NoSession \/ session[1].id = "" THEN Response(ms, us, 401, <<>>)
  ELSE IF body = Unparsable THEN Response(ms, us, 500, <<>>)
  ELSE IF "movieId" \notin DOMAIN body[1] \/ body[1].movieId = ""
       THEN Response(ms, us, 400, <<>>)
  ELSE LET res == addToFavorites(ms, us, session[1].id, body[1].movieId)
       IN IF ~res.ok THEN Response(res.movies, res.users, 400, <<>>)
          ELSE Response(res.movies, res.users, 200, <<>>)

\* DELETE /api/favorites
DeleteFavorite(ms, us, session, body) ==
  IF session = NoSession \/ session[1].id = "" THEN Response(ms, us, 401, <<>>)
  ELSE IF body = Unparsable THEN Response(ms, us, 500, <<>>)
  ELSE IF "movieId" \notin DOMAIN body[1] \/ body[1].movieId = ""
       THEN Response(ms, us, 400, <<>>)
  ELSE LET res == removeFromFavorites(ms, us, session[1].id, body[1].movieId)
       IN IF ~res.ok THEN Response(res.movies, res.users, 400, <<>>)
          ELSE Response(res.movies, res.users, 200, <<>>)

\* a query parameter of the URL: NoParam when searchParams.get gives null,
\* <<value>> otherwise
NoParam == <<>>

\* NaN, the result of parseInt on a string that does not start with digits
NaN == <<>>

\* parseInt on the year parameters that are offered: <<n>> or NaN
ParseInt(str) ==
  CASE str = "0" -> <<0>>
    [] str = "1999" -> <<1999>>
    [] str = "2019" -> <<2019>>
    [] str = "2020" -> <<2020>>
    [] str = "2020abc" -> <<2020>>
    [] str = "abc" -> NaN

\* GET /api/movies; search holds a character sequence, year a string
GetMovies(ms, us, search, year, offset) ==
  LET found == IF search # NoParam /\ search[1] # <<>>
               THEN searchMovies(ms, search[1]) ELSE getMovies(ms)
      filtered ==
        IF year # NoParam /\ year[1] # "" /\ ParseInt(year[1]) # NaN
        THEN SelectSeq(found, LAMBDA movie :
               getFullYear(movie.releaseDate, offset) = ParseInt(year[1])[1])
        ELSE found
  IN Response(ms, us, 200, filtered)

\* GET /api/movies/[id]
GetMovieByIdRoute(ms, us, id) ==
  IF getMovieById(ms, id) = <<>> THEN Response(ms, us, 404, <<>>)
  ELSE Response(ms, us, 200, getMovieById(ms, id))

\* GET /api/ratings
GetRating(ms, us, session, movieId) ==
  IF session = NoSession \/ session[1].id = "" THEN Response(ms, us, 401, <<>>)
  ELSE IF movieId = NoParam \/ movieId[1] = "" THEN Response(ms, us, 400, <<>>)
  ELSE Response(ms, us, 200, getUserRating(ms, movieId[1], session[1].id))

\* GET /api/favorites
GetFavorites(ms, us, session) ==
  IF session = NoSession \/ session[1].id = "" THEN Response(ms, us, 401, <<>>)
  ELSE Response(ms, us, 200, getFavoriteMovies(ms, us, session[1].id))

(***************************************************************************)
(* Sign-in (the NextAuth options).  A sign-in runs authorize, then the jwt *)
(* callback on the token NextAuth makes of the user that authorize         *)
(* returned, then the session callback on the session NextAuth makes of    *)
(* the token.  Credentials are <<>> (undefined) or one record; a field     *)
(* left out is not in its DOMAIN.                                          *)
(***************************************************************************)
\* bcrypt.compare on the passwords and hashes that occur
BcryptCompare(password, hash) ==
  \/ /\ password = "password"
     /\ hash = "$2b$10$Vp41WiGzXbNY2cAl7rqC/u46K126o1uOhEfUjWR83.uzlL8ExBvIq"
  \/ /\ password = "new password"
     /\ hash = "$2b$10$hash"

\* authorize that returns the user record as the store holds it
authorize_returnsStoredUser(us, credentials) ==
  IF credentials = <<>> THEN <<>>
  ELSE IF ~({"email", "password"} \subseteq DOMAIN credentials[1]) THEN <<>>
  ELSE IF credentials[1].email = "" \/ credentials[1].password = "" THEN <<>>
  ELSE LET user == getUserByEmail(us, credentials[1].email)
       IN IF user = <<>> THEN <<>>
          ELSE IF ~BcryptCompare(credentials[1].password, user[1].password) THEN <<>>
          ELSE user

authorize(us, credentials) ==
  IF credentials = <<>> THEN <<>>
  ELSE IF ~({"email", "password"} \subseteq DOMAIN credentials[1]) THEN <<>>
  ELSE IF credentials[1].email = "" \/ credentials[1].password = "" THEN <<>>
  ELSE LET user == getUserByEmail(us, credentials[1].email)
       IN IF user = <<>> THEN <<>>
          ELSE IF ~BcryptCompare(credentials[1].password, user[1].password) THEN <<>>
          ELSE <<[id |-> user[1].id, email |-> user[1].email,
                  name |-> user[1].name, role |-> user[1].role]>>

\* the token NextAuth hands to the jwt callback at sign-in
DefaultToken(user) == [name |-> user.name, email |-> user.email, sub |-> user.id]

\* callbacks.jwt; user is <<>> when the callback runs without a sign-in
jwt(token, user) ==
  IF user # <<>>
  THEN [k \in DOMAIN token \cup {"id", "role"} |->
          IF k = "id" THEN user[1].id
          ELSE IF k = "role" THEN user[1].role
          ELSE token[k]]
  ELSE token

\* the session NextAuth hands to the session callback: session.user
DefaultSession(token) == [name |-> token.name, email |-> token.email]

\* callbacks.session (session.user of the result)
sessionCallback(defaultSession, token) ==
  [k \in DOMAIN defaultSession \cup {"id", "role"} |->
     IF k = "id" THEN token.id
     ELSE IF k = "role" THEN token.role
     ELSE defaultSession[k]]

\* a sign-in: what authorize, jwt and session produce, in this order, or
\* nothing when authorize returns null
signIn(us, credentials) ==
  LET user == authorize(us, credentials)
  IN IF user = <<>> THEN <<>>
     ELSE LET token == jwt(DefaultToken(user[1]), user)
          IN <<user[1], token, sessionCallback(DefaultSession(token), token)>>

(***************************************************************************)
(* Route protection (the middleware).  A token is <<>> (no token) or one   *)
(* record; a path is a string.                                             *)
(***************************************************************************)
\* String.prototype.startsWith on the paths that are offered
StartsWith(pathname, prefix) ==
  CASE prefix = "/add-movie" -> pathname \in {"/add-movie", "/add-movie/draft"}
    [] prefix = "/favorites" -> pathname \in {"/favorites", "/favorites/shared"}

\* callbacks.authorized
authorized(token, pathname) ==
  IF StartsWith(pathname, "/add-movie")
  THEN token # <<>> /\ "role" \in DOMAIN token[1] /\ token[1].role = "admin"
  ELSE IF StartsWith(pathname, "/favorites") THEN token # <<>>
  ELSE TRUE

\* config.matcher: the paths on which the middleware runs
matcher == {"/add-movie", "/favorites"}

\* whether the middleware lets a request pass: it runs authorized on the
\* paths that the matcher names and no check on any other path
middleware(token, pathname) ==
  IF pathname \in matcher THEN authorized(token, pathname) ELSE TRUE

(***************************************************************************)
(* Requests offered to the routes.                                         *)
(***************************************************************************)
JsonNumber(n, d) == [type |-> "number", num |-> n, den |-> d]
JsonString(n) == [type |-> "string", num |-> n, den |-> 1]

ValidMovieBody ==
  [title |-> "X", description |-> "ten+ chars",
   imageUrl |-> "https://e/i.jpg", releaseDate |-> "2020-01-01"]

MovieBodies ==
  { Unparsable,
    <<ValidMovieBody>>,
    <<[title |-> "X", description |-> "ten+ chars", imageUrl |-> "https://e/i.jpg",
       releaseDate |-> "2020-01-01", id |-> "1"]>>,
    <<[ValidMovieBody EXCEPT !.description = "too short"]>>,
    <<[ValidMovieBody EXCEPT !.imageUrl = "not a url"]>>,
    <<[title |-> "X", description |-> "ten+ chars", imageUrl |-> "https://e/i.jpg"]>> }

UpdateBodies ==
  { Unparsable,
    <<[title |-> "Retitled"]>>,
    <<[description |-> "A new description", releaseDate |-> "2001-01-01", id |-> "99"]>>,
    <<[description |-> "too short"]>>,
    <<[releaseDate |-> "someday"]>>,
    <<[f \in {} |-> ""]>> }

\* ratings by value: 4, 5 and 4.5 are within the schema's range
RatingBodies ==
  { Unparsable,
    <<[movieId |-> "6", rating |-> JsonNumber(4, 1)]>>,
    <<[movieId |-> "6", rating |-> JsonNumber(5, 1), review |-> "Great movie"]>>,
    <<[movieId |-> "6", rating |-> JsonNumber(9, 2)]>>,
    <<[movieId |-> "6", rating |-> JsonNumber(0, 1)]>>,
    <<[movieId |-> "6", rating |-> JsonNumber(1, 2)]>>,
    <<[movieId |-> "6", rating |-> JsonNumber(6, 1)]>>,
    <<[movieId |-> "6", rating |-> JsonNumber(11, 2)]>>,
    <<[movieId |-> "6", rating |-> JsonString(5)]>>,
    <<[movieId |-> "6"]>>,
    <<[movieId |-> "", rating |-> JsonNumber(4, 1)]>>,
    <<[movieId |-> "99", rating |-> JsonNumber(4, 1)]>> }

\* ratings of movie "6" with 4 or 5, one naming another user in the body
UserRatingBodies ==
  { <<[movieId |-> "6", rating |-> JsonNumber(4, 1)]>>,
    <<[movieId |-> "6", rating |-> JsonNumber(5, 1), userId |-> "1"]>>,
    <<[movieId |-> "6", rating |-> JsonNumber(5, 1), userId |-> "2"]>>,
    <<[movieId |-> "99", rating |-> JsonNumber(4, 1)]>> }

FavoriteBodies ==
  { Unparsable,
    <<[movieId |-> "6"]>>,
    <<[movieId |-> "6", userId |-> "1"]>>,
    <<[movieId |-> "6", userId |-> "2"]>>,
    <<[movieId |-> ""]>>,
    <<[f \in {} |-> ""]>> }

CredentialInputs ==
  { <<>>,
    <<[email |-> "admin@movieapp.com"]>>,
    <<[email |-> "", password |-> "password"]>>,
    <<[email |-> "admin@movieapp.com", password |-> "password"]>>,
    <<[email |-> "demo@example.com", password |-> "password"]>>,
    <<[email |-> "demo@example.com", password |-> "new password"]>>,
    <<[email |-> "new@example.com", password |-> "new password"]>>,
    <<[email |-> "nobody@example.com", password |-> "password"]>> }
TokenInputs ==
  { <<>>, <<[role |-> "admin"]>>, <<[role |-> "user"]>>, <<[f \in {} |-> ""]>> }
PathInputs ==
  { "/add-movie", "/add-movie/draft", "/favorites", "/favorites/shared",
    "/", "/movies/6" }
\* Inputs of the specification that focuses on GET /api/movies: movies
\* with searchable titles and two release dates, search and year parameters
BrowseMovieInputs ==
  { [title |-> t, description |-> <<"c", "d">>,
     imageUrl |-> "https://e/i.jpg", releaseDate |-> date] :
    t \in SearchTitles, date \in {"1999-03-31", "2020-01-01"} } \
  { [title |-> <<"b", "a">>, description |-> <<"c", "d">>,
     imageUrl |-> "https://e/i.jpg", releaseDate |-> "1999-03-31"] }
SearchParams == { NoParam, <<<<" ">>>>, <<<<"A">>>>, <<<<" ", "c", "D">>>> }
BrowseYearParams == { NoParam, <<"abc">>, <<"1999">>, <<"2020">> }
BrowseOffsets == { 0 - 5, 0 }
YearParams == { NoParam, <<"">>, <<"0">>, <<"1999">>, <<"2020">>, <<"2020abc">>, <<"abc">> }
MovieIdParams == { NoParam, <<"">>, <<"6">>, <<"99">> }
UtcOffset == {0}

ConcurrentSessions == {NoSession, AdminSession, DemoSession}
ConcurrentBodies ==
  { <<[movieId |-> "6", rating |-> JsonNumber(4, 1)]>>,
    <<[movieId |-> "6", rating |-> JsonNumber(5, 1), review |-> "Great movie"]>> }

OneRatingBody == {<<[movieId |-> "6", rating |-> JsonNumber(4, 1)]>>}
OneFavoriteBody == {<<[movieId |-> "6"]>>}
OneUpdateBody == {<<[title |-> "Retitled"]>>}
OneMovieBody == {<<ValidMovieBody>>}

(***************************************************************************)
(* One action per route handler.  op records the route, the [id] segment   *)
(* of the path, the session user's id, the session and the body, and the   *)
(* response status.                                                        *)
(***************************************************************************)
SessionUserId(session) == IF session = NoSession THEN "" ELSE session[1].id

\* a handler responds: the store it leaves and the record of the request
Respond(name, session, id, body, res) ==
  /\ movies' = res.movies
  /\ users' = res.users
  /\ prevMovies' = movies
  /\ prevUsers' = users
  /\ op' = [name |-> name, movieId |-> id, userId |-> SessionUserId(session),
            args |-> <<session, body>>, ok |-> res.ok, out |-> res.out,
            status |-> res.status]

\* a request handled in one step
Request(name, session, id, body, res) ==
  /\ Respond(name, session, id, body, res)
  /\ UNCHANGED <<requests, client>>

(***************************************************************************)
(* POST /api/ratings with its suspension points.  The handler runs until   *)
(* await getServerSession, later until await request.json(), later to its  *)
(* end; other requests run in between.  requests[r] is the position of     *)
(* request r: idle (not sent), session (suspended at the first await),     *)
(* body (at the second), done.                                             *)
(***************************************************************************)
\* a step that leaves the store alone
Suspend(name, r) ==
  /\ UNCHANGED <<movies, users>>
  /\ prevMovies' = movies
  /\ prevUsers' = users
  /\ op' = [name |-> name, movieId |-> "", userId |-> "", args |-> <<r>>,
            ok |-> TRUE, out |-> <<>>]
  /\ UNCHANGED client

\* the handler is called and suspends at await getServerSession
RatingRequestArrives(sessions, bodies) ==
  \E r \in DOMAIN requests, sess \in sessions, body \in bodies :
    /\ requests[r].pc = "idle"
    /\ requests' = [requests EXCEPT ![r] = [pc |-> "session", session |-> sess, body |-> body]]
    /\ Suspend("POST /api/ratings called", r)

\* the session is there: 401 without a user id, else suspend at await
\* request.json()
RatingRequestGetsSession ==
  \E r \in DOMAIN requests :
    /\ requests[r].pc = "session"
    /\ IF SessionUserId(requests[r].session) = ""
       THEN /\ requests' = [requests EXCEPT ![r] =
                              [pc |-> "done", session |-> @.session, body |-> @.body,
                               status |-> 401]]
            /\ Respond("POST /api/ratings", requests[r].session, "", requests[r].body,
                       PostRating(movies, users, requests[r].session, requests[r].body))
            /\ UNCHANGED client
       ELSE /\ requests' = [requests EXCEPT ![r].pc = "body"]
            /\ Suspend("POST /api/ratings has session", r)

\* the body is there: validation, addRating and the response in one run
RatingRequestGetsBody ==
  \E r \in DOMAIN requests :
    /\ requests[r].pc = "body"
    /\ LET res == PostRating(movies, users, requests[r].session, requests[r].body)
       IN /\ requests' = [requests EXCEPT ![r] =
                            [pc |-> "done", session |-> @.session, body |-> @.body,
                             status |-> res.status]]
          /\ Respond("POST /api/ratings", requests[r].session, "", requests[r].body, res)
          /\ UNCHANGED client

PostMovieRequest(sessions, bodies) ==
  /\ Len(movies) < MaxMovies
  /\ \E session \in sessions, body \in bodies :
       Request("POST /api/movies", session, "", body,
               PostMovie(movies, users, session, body))

PutMovieRequest(sessions, ids, bodies) ==
  \E session \in sessions, id \in ids, body \in bodies :
    Request("PUT /api/movies/[id]", session, id, body,
            PutMovie(movies, users, session, id, body))

DeleteMovieRequest(sessions, ids) ==
  \E session \in sessions, id \in ids :
    Request("DELETE /api/movies/[id]", session, id, Unparsable,
            DeleteMovieById(movies, users, session, id))

PostRatingRequest(sessions, bodies) ==
  \E session \in sessions, body \in bodies :
    Request("POST /api/ratings", session, "", body,
            PostRating(movies, users, session, body))

GetMoviesRequest(searches, years, offsets) ==
  \E search \in searches, year \in years, offset \in offsets :
    Request("GET /api/movies", NoSession, "", <<search, year, offset>>,
            GetMovies(movies, users, search, year, offset))

GetMovieRequest(ids) ==
  \E id \in ids :
    Request("GET /api/movies/[id]", NoSession, id, <<>>,
            GetMovieByIdRoute(movies, users, id))

GetRatingRequest(sessions, movieIds) ==
  \E sess \in sessions, movieId \in movieIds :
    Request("GET /api/ratings", sess, "", <<movieId>>,
            GetRating(movies, users, sess, movieId))

GetFavoritesRequest(sessions) ==
  \E sess \in sessions :
    Request("GET /api/favorites", sess, "", <<>>,
            GetFavorites(movies, users, sess))

SignIn(credentialInputs) ==
  \E credentials \in credentialInputs :
    Request("signIn", NoSession, "", credentials,
            [movies |-> movies, users |-> users, ok |-> signIn(users, credentials) # <<>>,
             status |-> IF signIn(users, credentials) # <<>> THEN 200 ELSE 401,
             out |-> signIn(users, credentials)])

\* a page request that passes through the middleware
PageRequest(tokens, paths) ==
  \E token \in tokens, pathname \in paths :
    Call("middleware", "", "", <<token, pathname>>,
         Result(movies, users, middleware(token, pathname), <<>>))

PostFavoriteRequest(sessions, bodies) ==
  \E session \in sessions, body \in bodies :
    Request("POST /api/favorites", session, "", body,
            PostFavorite(movies, users, session, body))

DeleteFavoriteRequest(sessions, bodies) ==
  \E session \in sessions, body \in bodies :
    Request("DELETE /api/favorites", session, "", body,
            DeleteFavorite(movies, users, session, body))

(***************************************************************************)
(* SpecApi: every mutating route, the movie routes with all sessions, ids  *)
(* and bodies, the rating and favorites routes with one user and one body. *)
(***************************************************************************)
NextApi ==
  \/ PostMovieRequest(SessionInputs, MovieBodies)
  \/ PutMovieRequest(SessionInputs, MovieIdInputs, UpdateBodies)
  \/ DeleteMovieRequest(SessionInputs, DeleteIdInputs)
  \/ PostRatingRequest({DemoSession}, OneRatingBody)
  \/ PostFavoriteRequest({DemoSession}, OneFavoriteBody)
  \/ DeleteFavoriteRequest({DemoSession}, OneFavoriteBody)

SpecApi == Init /\ [][NextApi]_vars

(***************************************************************************)
(* SpecAuth: sign-ins with several credentials, page requests through the  *)
(* middleware with several tokens and paths, every route (the reading      *)
(* routes with all sessions and parameters, the mutating routes with one   *)
(* request each) and addUser, which makes a third account.                 *)
(***************************************************************************)
NextAuth ==
  \/ SignIn(CredentialInputs)
  \/ PageRequest(TokenInputs, PathInputs)
  \/ AddUser(UserInputs)
  \/ GetMoviesRequest({NoParam}, YearParams, UtcOffset)
  \/ GetMovieRequest(MovieIdInputs)
  \/ GetRatingRequest(SessionInputs, MovieIdParams)
  \/ GetFavoritesRequest(SessionInputs)
  \/ PostMovieRequest({AdminSession}, OneMovieBody)
  \/ PutMovieRequest({AdminSession}, OneMovieId, OneUpdateBody)
  \/ DeleteMovieRequest({AdminSession}, OneMovieId)
  \/ PostRatingRequest({DemoSession}, OneRatingBody)
  \/ PostFavoriteRequest({DemoSession}, OneFavoriteBody)
  \/ DeleteFavoriteRequest({DemoSession}, OneFavoriteBody)

SpecAuth == Init /\ [][NextAuth]_vars

(***************************************************************************)
(* SpecBrowse: GET /api/movies with search and year parameters over        *)
(* catalogs of up to MaxCatalog movies added to an emptied catalog, and    *)
(* the store operations that add and remove movies.                        *)
(***************************************************************************)
RECURSIVE BrowseCatalogs(_)
BrowseCatalogs(n) ==
  IF n = 0 THEN {<<>>}
  ELSE BrowseCatalogs(n - 1) \cup
       { addMovie(ms, InitialUsers, movie).movies :
           ms \in {c \in BrowseCatalogs(n - 1) : Len(c) = n - 1},
           movie \in BrowseMovieInputs }

InitBrowse ==
  /\ movies \in BrowseCatalogs(MaxCatalog)
  /\ users = InitialUsers
  /\ prevMovies = movies
  /\ prevUsers = InitialUsers
  /\ op = [name |-> "init", movieId |-> "", userId |-> "", args |-> <<>>,
           ok |-> TRUE, out |-> <<>>]
  /\ requests = NoRequests
  /\ client = NoClient

NextBrowse ==
  \/ GetMoviesRequest(SearchParams, BrowseYearParams, BrowseOffsets)
  \/ AddMovie(OneSearchMovie)
  \/ DeleteMovie(SearchIdInputs)

SpecBrowse == InitBrowse /\ [][NextBrowse]_vars

(***************************************************************************)
(* SpecConcurrent: up to MaxRequests POST /api/ratings requests in flight  *)
(* at once, for one movie, from the two users and without a session, in    *)
(* every interleaving of their runs between awaits.                        *)
(***************************************************************************)
InitConcurrent ==
  /\ movies = InitialMovies
  /\ users = InitialUsers
  /\ prevMovies = InitialMovies
  /\ prevUsers = InitialUsers
  /\ op = [name |-> "init", movieId |-> "", userId |-> "", args |-> <<>>,
           ok |-> TRUE, out |-> <<>>]
  /\ requests = [r \in 1..MaxRequests |-> [pc |-> "idle"]]
  /\ client = NoClient

NextConcurrent ==
  \/ RatingRequestArrives(ConcurrentSessions, ConcurrentBodies)
  \/ RatingRequestGetsSession
  \/ RatingRequestGetsBody

SpecConcurrent == InitConcurrent /\ [][NextConcurrent]_vars

(***************************************************************************)
(* The home page (HomeClient).  client holds the component state (movies,  *)
(* searchTerm, selectedYear, loading), the fetches that are under way      *)
(* (pending, each with the parameters it sent) and chosen, the parameters  *)
(* of the latest fetchMovies call, <<>> at the start and after             *)
(* clearFilters.  A response may arrive for any pending fetch.             *)
(***************************************************************************)
\* the catalog the page was rendered from (initialMovies)
HomeCatalog ==
  LET one == addMovie(<<>>, InitialUsers,
                      [title |-> <<"b", "a">>, description |-> <<"c", "d">>,
                       imageUrl |-> "https://e/i.jpg", releaseDate |-> "2020-01-01"]).movies
      two == addMovie(one, InitialUsers,
                      [title |-> <<"c", " ", "D">>, description |-> <<"c", "d">>,
                       imageUrl |-> "https://e/i.jpg", releaseDate |-> "1999-03-31"]).movies
  IN addMovie(two, InitialUsers,
              [title |-> <<"c", " ", "D">>, description |-> <<"c", "d">>,
               imageUrl |-> "https://e/i.jpg", releaseDate |-> "2020-01-01"]).movies

TermInputs == { <<>>, <<"a">> }
SelectableYears == { NullYear, <<1999>> }

\* new URLSearchParams with search and year appended when they are truthy
FetchParams(search, year) ==
  [search |-> IF search # <<>> THEN <<search>> ELSE NoParam,
   year |-> IF year # NullYear /\ year[1] # 0 THEN <<ToString(year[1])>> ELSE NoParam]

\* a step of the component
ClientStep(name, next) ==
  /\ client' = next
  /\ UNCHANGED <<movies, users, requests>>
  /\ prevMovies' = movies
  /\ prevUsers' = users
  /\ op' = [name |-> name, movieId |-> "", userId |-> "", args |-> <<>>,
            ok |-> TRUE, out |-> <<>>]

\* fetchMovies up to await fetch(...)
fetchMovies(c, search, year) ==
  [c EXCEPT !.loading = TRUE,
            !.pending = Append(@, FetchParams(search, year)),
            !.chosen = <<FetchParams(search, year)>>]

\* onChange of the search input
TypeSearchTerm(terms) ==
  \E term \in terms :
    /\ term # client.searchTerm
    /\ ClientStep("setSearchTerm", [client EXCEPT !.searchTerm = term])

HandleSearch ==
  /\ Len(client.pending) < MaxFetches
  /\ ClientStep("handleSearch", fetchMovies(client, client.searchTerm, client.selectedYear))

HandleYearFilter(years) ==
  /\ Len(client.pending) < MaxFetches
  /\ \E year \in years :
       ClientStep("handleYearFilter",
                  fetchMovies([client EXCEPT !.selectedYear = year], client.searchTerm, year))

ClearFilters ==
  ClientStep("clearFilters",
             [client EXCEPT !.searchTerm = <<>>, !.selectedYear = NullYear,
                            !.movies = HomeCatalog, !.chosen = <<>>])

\* fetchMovies from the response to the end: setMovies(data), then
\* setLoading(false)
ResponseArrives ==
  \E i \in 1..Len(client.pending) :
    LET sent == client.pending[i]
        data == GetMovies(movies, users, sent.search, sent.year, 0).out
    IN ClientStep("response",
                  [client EXCEPT !.movies = data, !.loading = FALSE,
                                 !.pending = RemoveAt(@, i)])

\* fetchMovies when fetch rejects: the catch block, then setLoading(false)
FetchFails ==
  \E i \in 1..Len(client.pending) :
    ClientStep("fetch failed",
               [client EXCEPT !.loading = FALSE, !.pending = RemoveAt(@, i)])

(***************************************************************************)
(* SpecHome: the home page over a fixed catalog, with up to MaxFetches     *)
(* fetches under way at once.                                              *)
(***************************************************************************)
InitHome ==
  /\ movies = HomeCatalog
  /\ users = InitialUsers
  /\ prevMovies = HomeCatalog
  /\ prevUsers = InitialUsers
  /\ op = [name |-> "init", movieId |-> "", userId |-> "", args |-> <<>>,
           ok |-> TRUE, out |-> <<>>]
  /\ requests = NoRequests
  /\ client = [movies |-> HomeCatalog, searchTerm |-> <<>>, selectedYear |-> NullYear,
               loading |-> FALSE, pending |-> <<>>, chosen |-> <<>>]

NextHome ==
  \/ TypeSearchTerm(TermInputs)
  \/ HandleSearch
  \/ HandleYearFilter(SelectableYears)
  \/ ClearFilters
  \/ ResponseArrives
  \/ FetchFails

SpecHome == InitHome /\ [][NextHome]_vars

(***************************************************************************)
(* SpecApiUsers: every mutating route, the rating and favorites routes     *)
(* with all sessions, the movie routes with the admin and one body.        *)
(***************************************************************************)
NextApiUsers ==
  \/ PostMovieRequest({AdminSession}, OneMovieBody)
  \/ PutMovieRequest({AdminSession}, OneMovieId, OneUpdateBody)
  \/ DeleteMovieRequest({AdminSession}, MovieIdInputs)
  \/ PostRatingRequest(SessionInputs, UserRatingBodies)
  \/ PostFavoriteRequest(SessionInputs, FavoriteBodies)
  \/ DeleteFavoriteRequest(SessionInputs, FavoriteBodies)

SpecApiUsers == Init /\ [][NextApiUsers]_vars

(***************************************************************************)
(* SpecApiRatings: every mutating route, the rating route with all rating  *)
(* bodies, the other routes with one session and one body.                 *)
(***************************************************************************)
NextApiRatings ==
  \/ PostMovieRequest({AdminSession}, OneMovieBody)
  \/ PutMovieRequest({AdminSession}, OneMovieId, OneUpdateBody)
  \/ DeleteMovieRequest({AdminSession}, MovieIdInputs)
  \/ PostRatingRequest({NoSession, AdminSession, DemoSession}, RatingBodies)
  \/ PostFavoriteRequest({DemoSession}, OneFavoriteBody)
  \/ DeleteFavoriteRequest({DemoSession}, OneFavoriteBody)

SpecApiRatings == Init /\ [][NextApiRatings]_vars

(***************************************************************************)
(* Properties of the store.                                                *)
(***************************************************************************)
UserIds(us) == {us[k].id : k \in 1..Len(us)}
MovieIds(ms) == {ms[i].id : i \in 1..Len(ms)}
Elements(seq) == {seq[i] : i \in 1..Len(seq)}
Raters(movie) == {movie.ratings[i].userId : i \in 1..Len(movie.ratings)}

\* C1: in every reachable state every movie has totalRatings equal to the
\* length of its ratings, averageRating equal to the sum of its ratings
\* divided by totalRatings when totalRatings > 0, and averageRating 0 when
\* totalRatings = 0.
C1_AggregatesConsistent ==
  \A i \in 1..Len(movies) :
    LET m == movies[i]
    IN /\ m.totalRatings = Len(m.ratings)
       /\ m.averageRating.den > 0
       /\ m.totalRatings > 0 =>
            m.averageRating.num * m.totalRatings * SumRatings(m.ratings).den
              = SumRatings(m.ratings).num * m.averageRating.den
       /\ m.totalRatings = 0 => m.averageRating.num = 0

\* The last call rated a movie that now has two ratings averaging 4.5.
C1_Witness ==
  /\ op.name = "addRating"
  /\ op.ok
  /\ op.out[1].totalRatings = 2
  /\ op.out[1].averageRating = [num |-> 9, den |-> 2]
  /\ getMovieById(movies, op.movieId) = op.out

\* C2: in every reachable state a movie's ratings hold at most one entry
\* per userId, and its totalRatings does not exceed the number of distinct
\* users who rated it.
C2_OneRatingPerUser ==
  \A i \in 1..Len(movies) :
    /\ \A a, b \in 1..Len(movies[i].ratings) :
         movies[i].ratings[a].userId = movies[i].ratings[b].userId => a = b
    /\ movies[i].totalRatings <= Cardinality(Raters(movies[i]))

\* The last call replaced the caller's earlier, different rating of a movie
\* that another user has rated too.
C2_Witness ==
  /\ op.name = "addRating"
  /\ op.ok
  /\ \E before \in Elements(getMovieById(prevMovies, op.movieId)) :
       /\ Raters(before) = UserIdInputs
       /\ \E r \in Elements(before.ratings) :
            /\ r.userId = op.userId
            /\ \A q \in Elements(op.out[1].ratings) : q.userId = op.userId => q.rating # r.rating

\* C3: every id in every user's favorites is the id of a movie in the
\* collection.
C3_FavoritesExist ==
  \A k \in 1..Len(users) : Elements(users[k].favorites) \subseteq MovieIds(movies)

\* C4: no two movies in the collection have the same id.
C4_MovieIdsUnique ==
  \A i, j \in 1..Len(movies) : movies[i].id = movies[j].id => i = j

\* C5: when addMovie returns movie m, getMovieById(m.id) returns that newly
\* created movie, with the supplied fields, no ratings and zero aggregates,
\* and m is the last element of getMovies().
C5_AddMovieThenGet ==
  op.name = "addMovie" =>
    /\ Len(op.out) = 1
    /\ getMovieById(movies, op.out[1].id) = op.out
    /\ \E movie \in MovieInputs :
         /\ op.out[1].title = movie.title
         /\ op.out[1].description = movie.description
         /\ op.out[1].imageUrl = movie.imageUrl
         /\ op.out[1].releaseDate = movie.releaseDate
    /\ op.out[1].ratings = <<>>
    /\ op.out[1].averageRating = Zero
    /\ op.out[1].totalRatings = 0
    /\ getMovies(movies)[Len(getMovies(movies))] = op.out[1]

\* C6: after deleteMovie(id) returns true, isMovieFavorited(u, id) is false
\* for every user u, and the favorites entries for other movie ids are as
\* they were before, in the same order.
C6_DeleteCascades ==
  (op.name = "deleteMovie" /\ op.ok) =>
    /\ \A u \in UserIds(users) \cup UserIdInputs : ~isMovieFavorited(users, u, op.movieId)
    /\ Len(users) = Len(prevUsers)
    /\ \A k \in 1..Len(users) :
         /\ users[k].id = prevUsers[k].id
         /\ SelectSeq(users[k].favorites, LAMBDA e : e # op.movieId)
              = SelectSeq(prevUsers[k].favorites, LAMBDA e : e # op.movieId)

\* The deleted movie had been favorited by two users, one of whom keeps
\* another favorite.
C6_Witness ==
  /\ op.name = "deleteMovie"
  /\ op.ok
  /\ \A u \in UserIdInputs : isMovieFavorited(prevUsers, u, op.movieId)
  /\ \E k \in 1..Len(users) : users[k].favorites # <<>>

\* C7: deleteMovie(id) with a known id returns true, afterwards
\* getMovieById(id) is absent, and the other movies stay unchanged in the
\* same relative order.
C7_DeleteRemoves ==
  (op.name = "deleteMovie" /\ op.movieId \in MovieIds(prevMovies)) =>
    /\ op.ok
    /\ getMovieById(movies, op.movieId) = <<>>
    /\ movies = SelectSeq(prevMovies, LAMBDA m : m.id # op.movieId)

\* C8: a store operation that reports failure (addRating or updateMovie
\* returning null, deleteMovie, addToFavorites or removeFromFavorites
\* returning false) leaves movies and users unchanged.
C8_FailureChangesNothing ==
  (/\ op.name \in {"addRating", "updateMovie", "deleteMovie",
                   "addToFavorites", "removeFromFavorites"}
   /\ ~op.ok) =>
    /\ movies = prevMovies
    /\ users = prevUsers

\* deleteMovie failed for an id that is no movie while a user holds that id
\* among the favorites.
C8_Witness ==
  /\ op.name = "deleteMovie"
  /\ ~op.ok
  /\ \E k \in 1..Len(users) : Includes(users[k].favorites, op.movieId)

\* C9: in every reachable state no user's favorites list contains the same
\* movie id twice.
C9_FavoritesNoDuplicates ==
  \A k \in 1..Len(users) :
    \A a, b \in 1..Len(users[k].favorites) :
      users[k].favorites[a] = users[k].favorites[b] => a = b

\* addToFavorites was refused for a known user who already holds the id.
C9_Witness ==
  /\ op.name = "addToFavorites"
  /\ ~op.ok
  /\ op.userId \in UserIds(users)
  /\ \E k \in 1..Len(users) :
       users[k].id = op.userId /\ Includes(users[k].favorites, op.movieId)

C11_RemoveFromFavoritesContract ==
  op.name = "removeFromFavorites" =>
    LET known == \E k \in 1..Len(prevUsers) : prevUsers[k].id = op.userId
        again == removeFromFavorites(movies, users, op.userId, op.movieId)
    IN /\ op.ok = known
       /\ movies = prevMovies
       /\ Len(users) = Len(prevUsers)
       /\ known =>
            /\ ~isMovieFavorited(users, op.userId, op.movieId)
            /\ again.ok
            /\ again.users = users
            /\ again.movies = movies
            /\ \A k \in 1..Len(users) :
                 /\ \A x \in Elements(prevUsers[k].favorites) :
                      (x # op.movieId \/ prevUsers[k].id # op.userId)
                        => x \in Elements(users[k].favorites)
                 /\ (prevUsers[k].id # op.userId
                       \/ op.movieId \notin Elements(prevUsers[k].favorites))
                      => users[k] = prevUsers[k]
       /\ ~known => users = prevUsers

\* removeFromFavorites took the first of two favorites away from a user.
C11_Witness ==
  /\ op.name = "removeFromFavorites"
  /\ op.ok
  /\ \E k \in 1..Len(users) :
       /\ users[k].id = op.userId
       /\ Len(prevUsers[k].favorites) = 2
       /\ prevUsers[k].favorites[1] = op.movieId
       /\ users[k].favorites = <<prevUsers[k].favorites[2]>>

\* removeFromFavorites returned true for an id the user did not hold and
\* left the user's one favorite in place.
C11_WitnessNotFavorited ==
  /\ op.name = "removeFromFavorites"
  /\ op.ok
  /\ \E k \in 1..Len(users) :
       /\ users[k].id = op.userId
       /\ Len(prevUsers[k].favorites) = 1
       /\ prevUsers[k].favorites[1] # op.movieId

\* C12: after addRating(movieId, u, r, review) on a known movie,
\* getUserRating(movieId, u) is exactly {rating: r, review}; a rating by a
\* user who had rated the movie replaces the old entry (totalRatings
\* unchanged, and a sole rater's r is the average); the other users'
\* ratings of that movie, every other movie and all users are unchanged.
C12_LatestRatingWins ==
  (op.name = "addRating" /\ op.movieId \in MovieIds(prevMovies)) =>
    LET i == MovieIndex(prevMovies, op.movieId)
        others(rs) == SelectSeq(rs, LAMBDA e : e.userId # op.userId)
    IN /\ op.ok
       /\ getUserRating(movies, op.movieId, op.userId)
            = <<[rating |-> op.args[1], review |-> op.args[2]]>>
       /\ users = prevUsers
       /\ Len(movies) = Len(prevMovies)
       /\ \A j \in 1..Len(movies) : j # i => movies[j] = prevMovies[j]
       /\ others(movies[i].ratings) = others(prevMovies[i].ratings)
       /\ movies[i].totalRatings =
            IF op.userId \in Raters(prevMovies[i])
            THEN prevMovies[i].totalRatings ELSE prevMovies[i].totalRatings + 1
       /\ Raters(movies[i]) = {op.userId} =>
            /\ movies[i].totalRatings = 1
            /\ movies[i].averageRating = op.args[1]

\* A user replaced an own rating by one with another value and another
\* review, on a movie that the other user has rated as well.
C12_Witness ==
  /\ op.name = "addRating"
  /\ op.ok
  /\ \E before \in Elements(getMovieById(prevMovies, op.movieId)) :
       /\ Raters(before) = UserIdInputs
       /\ \E r \in Elements(before.ratings) :
            /\ r.userId = op.userId
            /\ r.rating # op.args[1]
            /\ r.review # op.args[2]
            /\ op.args[2] # NoReview

\* C13: updateMovie(id, updates) on a known id changes only the provided
\* fields among title, description, imageUrl and releaseDate of that one
\* movie; its id, ratings, averageRating, totalRatings and position, every
\* other movie and all users are unchanged.  For an unknown id it returns
\* null.
C13_UpdateChangesProvidedFieldsOnly ==
  op.name = "updateMovie" =>
    LET i == MovieIndex(prevMovies, op.movieId)
        updates == op.args[1]
    IN /\ users = prevUsers
       /\ Len(movies) = Len(prevMovies)
       /\ op.ok = (op.movieId \in MovieIds(prevMovies))
       /\ ~op.ok => (movies = prevMovies /\ op.out = <<>>)
       /\ op.ok =>
            /\ \A j \in 1..Len(movies) : j # i => movies[j] = prevMovies[j]
            /\ movies[i].id = prevMovies[i].id
            /\ movies[i].ratings = prevMovies[i].ratings
            /\ movies[i].averageRating = prevMovies[i].averageRating
            /\ movies[i].totalRatings = prevMovies[i].totalRatings
            /\ \A f \in {"title", "description", "imageUrl", "releaseDate"} :
                 movies[i][f] = IF f \in DOMAIN updates THEN updates[f] ELSE prevMovies[i][f]
            /\ op.out = <<movies[i]>>

\* updateMovie changed the title, and nothing else, of a rated movie that
\* is not the last of the collection.
C13_Witness ==
  /\ op.name = "updateMovie"
  /\ op.ok
  /\ DOMAIN op.args[1] = {"title"}
  /\ op.out[1].title # prevMovies[MovieIndex(prevMovies, op.movieId)].title
  /\ op.out[1].totalRatings = 1
  /\ MovieIndex(prevMovies, op.movieId) < Len(movies)

\* C17: no two users share an email, so getUserByEmail(email) identifies at
\* most one user.
C17_EmailsUnique ==
  /\ \A j, k \in 1..Len(users) : users[j].email = users[k].email => j = k
  /\ \A k \in 1..Len(users) : getUserByEmail(users, users[k].email) = <<users[k]>>

\* C18: addUser appends a user with role 'user', no favorites and an id no
\* existing user has, and leaves every existing user and every movie as it
\* was; user ids are unique in every state.
C18_AddUserContract ==
  /\ \A j, k \in 1..Len(users) : users[j].id = users[k].id => j = k
  /\ op.name = "addUser" =>
       /\ Len(users) = Len(prevUsers) + 1
       /\ SubSeq(users, 1, Len(prevUsers)) = prevUsers
       /\ users[Len(users)] = op.out[1]
       /\ op.out[1].role = "user"
       /\ op.out[1].favorites = <<>>
       /\ op.out[1].id \notin UserIds(prevUsers)
       /\ movies = prevMovies

\* addUser was called while an earlier user had favorites, and that user
\* still has them.
C18_Witness ==
  /\ op.name = "addUser"
  /\ Len(users) = Len(InitialUsers) + 1
  /\ \E k \in 1..Len(prevUsers) : prevUsers[k].favorites # <<>>
  /\ users[1].role = "admin"

\* two characters that differ at most in case
SameLetter(a, b) ==
  a = b \/ \E k \in 1..Len(UpperCase) : {a, b} = {UpperCase[k], LowerCase[k]}

\* text holds term somewhere, letter case ignored
ContainsIgnoringCase(text, term) ==
  \E i \in 0..(Len(text) - Len(term)) :
    \A j \in 1..Len(term) : SameLetter(text[i + j], term[j])

IsBlank(query) == \A i \in 1..Len(query) : query[i] \in WhiteSpace

\* C19: searchMovies with an empty or whitespace-only query returns all
\* movies, as getMovies does, in the same order.
C19_BlankQueryReturnsAll ==
  (op.name = "searchMovies" /\ IsBlank(op.args[1])) => op.out = getMovies(movies)

\* A query of white space only was searched in a catalog of two movies.
C19_Witness ==
  /\ op.name = "searchMovies"
  /\ op.args[1] = <<" ", "\t", "\n">>
  /\ Len(movies) >= 2
  /\ Len(op.out) = Len(movies)

\* C20: for a query that is not blank, searchMovies returns exactly the
\* movies whose title or description contains the trimmed query, letter
\* case ignored, in catalog order.
C20_SearchReturnsExactlyMatches ==
  (op.name = "searchMovies" /\ ~IsBlank(op.args[1])) =>
    LET term == trim(op.args[1])
    IN op.out = SelectSeq(movies, LAMBDA m :
                  \/ ContainsIgnoringCase(m.title, term)
                  \/ ContainsIgnoringCase(m.description, term))

\* A query with white space around it and in another letter case matched
\* one movie by its description only and did not match another movie.
C20_Witness ==
  /\ op.name = "searchMovies"
  /\ op.args[1] = <<" ", "a", "b", "\t">>
  /\ Len(op.out) >= 1
  /\ Len(op.out) < Len(movies)
  /\ \E i \in 1..Len(op.out) :
       /\ ~ContainsIgnoringCase(op.out[i].title, <<"a", "b">>)
       /\ op.out[i].description = <<"x", "A", "B", "y">>

\* the year written in a movie's release date
ReleaseYear(movie) == DateParse(movie.releaseDate).year
ReleaseYears(ms) == {ReleaseYear(ms[i]) : i \in 1..Len(ms)}

\* C21: getMovieYears returns a strictly descending (so duplicate-free)
\* sequence whose elements are exactly the release years of the movies in
\* the collection.
C21_YearsDescendingAndExact ==
  op.name = "getMovieYears" =>
    /\ \A i \in 1..(Len(op.out) - 1) : op.out[i] > op.out[i + 1]
    /\ Elements(op.out) = ReleaseYears(movies)

\* C22: filterMoviesByYear returns all movies for null and, for every
\* integer year, exactly the movies released in that year, in catalog
\* order.
C22_FilterReturnsExactlyTheYear ==
  op.name = "filterMoviesByYear" =>
    LET year == op.args[1]
    IN IF year = NullYear THEN op.out = movies
       ELSE op.out = SelectSeq(movies, LAMBDA m : ReleaseYear(m) = year[1])

\* C23: getFavoriteMovies returns nothing for an unknown user and, for a
\* known one, exactly the movies of the collection whose id is among the
\* user's favorites, in catalog order, at most one movie per favorited id.
C23_FavoriteMoviesExact ==
  op.name = "getFavoriteMovies" =>
    IF op.userId \notin UserIds(users) THEN op.out = <<>>
    ELSE LET user == users[UserIndex(users, op.userId)]
         IN /\ op.out = SelectSeq(movies, LAMBDA m : m.id \in Elements(user.favorites))
            /\ \A id \in Elements(user.favorites) :
                 Cardinality({i \in 1..Len(op.out) : op.out[i].id = id}) <= 1

\* C26: right after addMovie returned movie m, isMovieFavorited(u, m.id) is
\* false for every user u and m is in no user's getFavoriteMovies result.
C26_NewMovieIsNobodysFavorite ==
  op.name = "addMovie" =>
    \A k \in 1..Len(users) :
      /\ ~isMovieFavorited(users, users[k].id, op.out[1].id)
      /\ op.out[1] \notin Elements(getFavoriteMovies(movies, users, users[k].id))

(***************************************************************************)
(* Properties of the API routes.                                           *)
(***************************************************************************)
MovieRoutes == {"POST /api/movies", "PUT /api/movies/[id]", "DELETE /api/movies/[id]"}
FavoriteRoutes == {"POST /api/favorites", "DELETE /api/favorites"}
StoreUnchanged == movies = prevMovies /\ users = prevUsers

C15_OnlyTheSessionUser ==
  op.name \in FavoriteRoutes \cup {"POST /api/ratings"} =>
    LET session == op.args[1]
        u == op.userId
        others(rs) == SelectSeq(rs, LAMBDA e : e.userId # u)
    IN /\ (session = NoSession \/ u = "") => (op.status = 401 /\ StoreUnchanged)
       /\ Len(movies) = Len(prevMovies)
       /\ Len(users) = Len(prevUsers)
       /\ \A i \in 1..Len(movies) :
            /\ others(movies[i].ratings) = others(prevMovies[i].ratings)
            /\ \A f \in {"id"} \cup MovieKeys : movies[i][f] = prevMovies[i][f]
       /\ \A k \in 1..Len(users) :
            /\ users[k].id # u => users[k] = prevUsers[k]
            /\ [users[k] EXCEPT !.favorites = <<>>] = [prevUsers[k] EXCEPT !.favorites = <<>>]
       /\ op.name = "POST /api/ratings" => users = prevUsers
       /\ op.name \in FavoriteRoutes => movies = prevMovies

\* The demo user rated a movie with a body that names the admin, who has
\* rated that movie too; the request succeeded.
C15_Witness ==
  /\ op.name = "POST /api/ratings"
  /\ op.status = 200
  /\ op.userId = "2"
  /\ "userId" \in DOMAIN op.args[2][1]
  /\ op.args[2][1].userId = "1"
  /\ "1" \in Raters(op.out[1])
  /\ "2" \in Raters(op.out[1])

\* C15, favorites: the demo user added a favorite with a body that names
\* the admin while the admin holds favorites too.
C15_WitnessFavorites ==
  /\ op.name = "POST /api/favorites"
  /\ op.status = 200
  /\ op.userId = "2"
  /\ "userId" \in DOMAIN op.args[2][1]
  /\ \E k \in 1..Len(users) : users[k].id = "1" /\ users[k].favorites # <<>>

IsStarRating(x) == x.den = 1 /\ MinRating <= x.num /\ x.num <= MaxRating

\* C16: every rating that reaches the store through POST /api/ratings is an
\* integer from 1 to 5: every stored rating is one, and a body with any
\* other rating value is answered 400 and changes nothing.
C16_OnlyIntegerRatings ==
  /\ \A i \in 1..Len(movies) : \A e \in Elements(movies[i].ratings) : IsStarRating(e.rating)
  /\ (/\ op.name = "POST /api/ratings"
      /\ op.userId # ""
      /\ op.args[2] # Unparsable
      /\ \/ "rating" \notin DOMAIN op.args[2][1]
         \/ op.args[2][1].rating.type # "number"
         \/ ~IsStarRating(op.args[2][1].rating))
     => (op.status = 400 /\ StoreUnchanged)

ApiRoutes ==
  MovieRoutes \cup FavoriteRoutes \cup
  {"POST /api/ratings", "GET /api/movies", "GET /api/movies/[id]",
   "GET /api/ratings", "GET /api/favorites"}
Passwords(us) == {us[k].password : k \in 1..Len(us)}
StringFields ==
  {"id", "title", "description", "imageUrl", "releaseDate",
   "email", "name", "role", "sub", "review", "userId"}

\* a record holds no password: no field of that name, no string field whose
\* value is the password of a user
HoldsNoPassword(record, us) ==
  /\ "password" \notin DOMAIN record
  /\ \A k \in DOMAIN record \cap StringFields : record[k] \notin Passwords(us)

\* C24: no response of an API route and no user, token or session made by
\* authorize and the jwt and session callbacks holds the password of any
\* user, under that name or as a value.
C24_PasswordNeverExposed ==
  op.name \in ApiRoutes \cup {"signIn"} =>
    \A i \in 1..Len(op.out) :
      /\ HoldsNoPassword(op.out[i], users)
      /\ "ratings" \in DOMAIN op.out[i] =>
           \A e \in Elements(op.out[i].ratings) : HoldsNoPassword(e, users)

\* The account made by addUser signed in: authorize, jwt and session gave a
\* user, a token and a session for it.
C24_Witness ==
  /\ op.name = "signIn"
  /\ Len(op.out) = 3
  /\ op.out[1].email = "new@example.com"
  /\ op.out[2].id = "3"
  /\ op.out[3].role = "user"

IsAdminToken(token) == token # <<>> /\ "role" \in DOMAIN token[1] /\ token[1].role = "admin"

\* C25: the middleware lets a request to a path that starts with /add-movie
\* pass exactly when the token's role is 'admin', a request to a path that
\* starts with /favorites exactly when there is a token, and a request to
\* any other path always.
C25_MiddlewareProtectsPrefixes ==
  op.name = "middleware" =>
    LET token == op.args[1]
        pathname == op.args[2]
    IN IF StartsWith(pathname, "/add-movie") THEN op.ok = IsAdminToken(token)
       ELSE IF StartsWith(pathname, "/favorites") THEN op.ok = (token # <<>>)
       ELSE op.ok

\* C27: the movie handlers check the session (401), then the admin role
\* (403), then the body (400, POST and PUT), then the movie (404, PUT and
\* DELETE): a request that fails several checks gets the status of the
\* first, and the store changes only when every check passed.
C27_ChecksInFixedOrder ==
  op.name \in MovieRoutes =>
    LET sess == op.args[1]
        body == op.args[2]
        admin == sess # NoSession /\ sess[1].role = "admin"
        hasBody == op.name # "DELETE /api/movies/[id]"
        bodyValid ==
          /\ body # Unparsable
          /\ IF op.name = "POST /api/movies" THEN movieSchema(body[1]).success
             ELSE movieUpdateSchema(body[1]).success
        bodyInvalid ==
          /\ body # Unparsable
          /\ IF op.name = "POST /api/movies" THEN ~movieSchema(body[1]).success
             ELSE ~movieUpdateSchema(body[1]).success
        hasId == op.name # "POST /api/movies"
        exists == op.movieId \in MovieIds(prevMovies)
    IN /\ sess = NoSession => op.status = 401
       /\ (sess # NoSession /\ ~admin) => op.status = 403
       /\ (admin /\ hasBody /\ bodyInvalid) => op.status = 400
       /\ (admin /\ (hasBody => bodyValid) /\ hasId /\ ~exists) => op.status = 404
       /\ op.status = 404 => (admin /\ (hasBody => bodyValid) /\ ~exists)
       /\ op.status = 400 => (admin /\ bodyInvalid)
       /\ ~StoreUnchanged =>
            (admin /\ (hasBody => bodyValid) /\ (hasId => exists))

\* An admin sent an invalid body to PUT for an id that no movie has and got
\* 400.
C27_Witness ==
  /\ op.name = "PUT /api/movies/[id]"
  /\ op.args[1] = AdminSession
  /\ op.movieId \notin MovieIds(prevMovies)
  /\ op.args[2] # Unparsable
  /\ ~movieUpdateSchema(op.args[2][1]).success
  /\ op.status = 400

\* C27: a signed-in user who is no admin asked to delete an id that no
\* movie has and got 403.
C27_WitnessForbidden ==
  /\ op.name = "DELETE /api/movies/[id]"
  /\ op.args[1] = DemoSession
  /\ op.movieId \notin MovieIds(prevMovies)
  /\ op.status = 403

\* C28: GET /api/movies answers with exactly the movies that match the
\* search term, when one is given, and were released in the year of the
\* year parameter, when one is given and parses as a number, in catalog
\* order, and changes nothing in the store.
C28_GetMoviesIntersection ==
  op.name = "GET /api/movies" =>
    LET search == op.args[2][1]
        year == op.args[2][2]
        searched == search # NoParam /\ ~IsBlank(search[1])
        yearGiven == year # NoParam /\ year[1] # "" /\ ParseInt(year[1]) # NaN
        matches(m) ==
          \/ ContainsIgnoringCase(m.title, trim(search[1]))
          \/ ContainsIgnoringCase(m.description, trim(search[1]))
    IN /\ StoreUnchanged
       /\ op.status = 200
       /\ op.out = SelectSeq(movies, LAMBDA m :
                      /\ searched => matches(m)
                      /\ yearGiven => ReleaseYear(m) = ParseInt(year[1])[1])

\* the requests of user u for the movie with this id that were answered 200
Rated(u, id) ==
  {r \in DOMAIN requests :
     /\ requests[r].pc = "done"
     /\ requests[r].status = 200
     /\ SessionUserId(requests[r].session) = u
     /\ requests[r].body[1].movieId = id}

\* C29: in every interleaving of POST /api/ratings requests, a movie holds
\* at most one rating of a user, it holds one exactly when a request of that
\* user for that movie was answered 200, its value is the value of one of
\* these requests, and the aggregates agree with the ratings; a request
\* changes the store only in the run in which it is answered 200.
C29_ConcurrentRatingsAtomic ==
  /\ C1_AggregatesConsistent
  /\ \A i \in 1..Len(movies) : \A u \in UserIds(users) :
       LET mine == SelectSeq(movies[i].ratings, LAMBDA e : e.userId = u)
       IN /\ Len(mine) <= 1
          /\ Len(mine) = 1 <=> Rated(u, movies[i].id) # {}
          /\ Len(mine) = 1 =>
               \E r \in Rated(u, movies[i].id) :
                 /\ mine[1].rating = RatingValue(requests[r].body[1])
                 /\ mine[1].review = ReviewValue(requests[r].body[1])
  /\ ~StoreUnchanged => (op.name = "POST /api/ratings" /\ op.status = 200)

\* Three requests of the demo user for one movie, with different values,
\* were all answered 200 and the movie holds one rating of that user.
C29_Witness ==
  /\ \A r \in DOMAIN requests :
       /\ requests[r].pc = "done"
       /\ requests[r].status = 200
       /\ requests[r].session = DemoSession
  /\ \E q, r \in DOMAIN requests : requests[q].body # requests[r].body
  /\ \E i \in 1..Len(movies) :
       /\ movies[i].id = "6"
       /\ Len(movies[i].ratings) = 1
       /\ movies[i].totalRatings = 1

\* C29: two requests of one user are suspended at the same time, one at
\* each await.
C29_WitnessOverlap ==
  \E q, r \in DOMAIN requests :
    /\ requests[q].pc = "session"
    /\ requests[r].pc = "body"
    /\ requests[q].session = DemoSession
    /\ requests[r].session = DemoSession

\* what the page should show for the latest choice
ChosenList ==
  IF client.chosen = <<>> THEN HomeCatalog
  ELSE GetMovies(movies, users, client.chosen[1].search, client.chosen[1].year, 0).out

\* C30: when no fetch is under way, the page shows the list of the latest
\* chosen search term and year (the initial list after clearFilters) and
\* loading is false.
C30_DisplayFollowsLatestChoice ==
  (client # NoClient /\ client.pending = <<>>) =>
    (client.movies = ChosenList /\ ~client.loading)

====
